---------------------------- MODULE Spec2Model ----------------------------
(***************************************************************************)
(* Two-tier response cache of the Ayira e-commerce backend:                *)
(*   src/src/middleware/upload.js  lines 350-532  (middleware/cache)       *)
(*   src/unnamed/part_000                         (server.js and app.js)   *)
(*   src/src/controllers/product.controller.js    (product handlers)       *)
(*   src/src/controllers/brand.controller.js      (brand/category handlers)*)
(* The Local Cache is a node-cache instance, the Distributed Cache a       *)
(* node-redis client; both are libraries and are modelled by the           *)
(* behaviour of the calls the repository makes on them.                    *)
(***************************************************************************)
EXTENDS Integers, Sequences, FiniteSets, TLC

(***************************************************************************)
(* Bounds of the model.                                                    *)
(***************************************************************************)
\* maxKeys of the Local Cache, scaled down from 5000 (upload.js:359) so that
\* a full store is reachable.
MaxKeys == 2
\* How many successful writes the database takes.
MaxWrites == 2

(***************************************************************************)
(* Program constants.                                                      *)
(***************************************************************************)
LocalCeiling == 300      \* Math.min(ttl, 300), upload.js:422 and :489
BackfillTtl == 60        \* memoryCache.set(key, data, 60), upload.js:411, :511
CheckPeriod == 60        \* checkperiod of node-cache, upload.js:357
RetryStepMs == 100       \* retries * 100, upload.js:374 and part_005:209
MaxDelayMs == 3000       \* Math.min(..., 3000), upload.js:374
MaxRetries == 10         \* if (retries > 10), upload.js:370 and part_005:205

Min(a, b) == IF a < b THEN a ELSE b

(***************************************************************************)
(* JavaScript values.  A cached value is a document or a response object;  *)
(* documents read from the database carry Date and ObjectId fields         *)
(* ("native").  JSON.stringify turns these fields into strings, so a value *)
(* that went through the Distributed Cache comes back with dates "string". *)
(***************************************************************************)
Undefined == [t |-> "undefined"]
Null == [t |-> "null"]
Obj(b, d) == [t |-> "object", body |-> b, dates |-> d]

\* if (x): undefined and null are falsy, every object is truthy.
Truthy(v) == v.t = "object"

\* JSON.stringify(data): the text of an object; Date fields become strings.
JSONstringify(v) == [t |-> "json", body |-> v.body]
\* JSON.parse(text) of a text JSON.stringify produced.
JSONparse(s) == Obj(s.body, "string")
\* JSON.parse throws a SyntaxError on anything else.
JSONparseThrows(s) == s.t # "json"

(***************************************************************************)
(* Strings: String.prototype.includes and the glob of Redis KEYS.          *)
(***************************************************************************)
\* key.includes(pattern)
Includes(key, pattern) ==
    \E i \in 1..(Len(key) - Len(pattern) + 1) :
        SubSeq(key, i, i + Len(pattern) - 1) = pattern

\* Redis glob-style matching of KEYS: '*' matches any run of characters,
\* '?' exactly one character, every other character itself (the patterns
\* of this model use no '[' class and no '\' escape).
RECURSIVE GlobMatch(_, _)
GlobMatch(pat, str) ==
    IF Len(pat) = 0 THEN Len(str) = 0
    ELSE LET c == SubSeq(pat, 1, 1)
             rest == SubSeq(pat, 2, Len(pat))
         IN  IF c = "*"
             THEN \E i \in 0..Len(str) : GlobMatch(rest, SubSeq(str, i + 1, Len(str)))
             ELSE /\ Len(str) > 0
                  /\ (c = "?" \/ c = SubSeq(str, 1, 1))
                  /\ GlobMatch(rest, SubSeq(str, 2, Len(str)))

(***************************************************************************)
(* Local Cache: node-cache with stdTTL 300, checkperiod 60, useClones      *)
(* false, maxKeys.  A store is a function from the keys it holds to        *)
(* [val, left]: the value and the seconds it has left, which is the ttl    *)
(* right after the set.  Expired entries stay in the store, and count as   *)
(* keys, until a get of the key or the periodic check removes them; their  *)
(* value can no longer be read and is kept as undefined.  node-cache       *)
(* reads a ttl of 0 as "unlimited": such an entry never expires, and its   *)
(* `left` is negative.                                                     *)
(***************************************************************************)
MemPermanent(e) == e.left < 0

MemExpired(e) == e.left = 0

MemRemove(m, ks) == [x \in (DOMAIN m) \ ks |-> m[x]]

\* memoryCache.get(key): the value, or undefined for a missing or expired key
MemGet(m, k) ==
    IF k \in DOMAIN m /\ ~MemExpired(m[k]) THEN m[k].val ELSE Undefined

\* ... and an expired key is deleted by the get that finds it.
MemAfterGet(m, k) ==
    IF k \in DOMAIN m /\ MemExpired(m[k]) THEN MemRemove(m, {k}) ELSE m

\* memoryCache.set throws ECACHEFULL when the store already holds maxKeys keys
MemSetThrows(m) == Cardinality(DOMAIN m) >= MaxKeys

\* memoryCache.set(key, value, ttl) when it does not throw
MemSet(m, k, v, ttl) ==
    [x \in (DOMAIN m) \cup {k} |->
        IF x = k THEN [val |-> v, left |-> IF ttl = 0 THEN 0 - 1 ELSE ttl]
        ELSE m[x]]

\* memoryCache.keys()
MemKeys(m) == DOMAIN m

\* the periodic check (every checkperiod seconds) deletes the expired entries
MemSweep(m) == MemRemove(m, {k \in DOMAIN m : MemExpired(m[k])})

\* the passage of d seconds
MemAge(m, d) ==
    [x \in DOMAIN m |->
        IF MemPermanent(m[x]) THEN m[x]
        ELSE IF m[x].left > d
        THEN [m[x] EXCEPT !.left = m[x].left - d]
        ELSE [val |-> Undefined, left |-> 0]]

(***************************************************************************)
(* Distributed Cache: the Redis server behind redisClient.  A store is a   *)
(* function from keys to [txt, left, ttl]: the text, the seconds left and   *)
(* the ttl of the SETEX that wrote the entry.  Redis never returns an      *)
(* expired key, so expired entries are dropped as time passes.             *)
(***************************************************************************)
\* redisClient.get(key): the stored text, or null
RedisGet(r, k) == IF k \in DOMAIN r THEN r[k].txt ELSE Null

\* SETEX rejects a ttl that is not positive ("ERR invalid expire time")
RedisSetExRejects(ttl) == ttl <= 0

\* redisClient.setEx(key, ttl, text) when it succeeds
RedisSetEx(r, k, ttl, txt) ==
    [x \in (DOMAIN r) \cup {k} |->
        IF x = k THEN [txt |-> txt, left |-> ttl, ttl |-> ttl] ELSE r[x]]

\* redisClient.keys(`*${pattern}*`)
RedisKeys(r, pattern) == {k \in DOMAIN r : GlobMatch("*" \o pattern \o "*", k)}

\* redisClient.del(keys)
RedisDel(r, ks) == [x \in (DOMAIN r) \ ks |-> r[x]]

RedisAge(r, d) ==
    LET live == {k \in DOMAIN r : r[k].left > d}
    IN  [x \in live |-> [r[x] EXCEPT !.left = r[x].left - d]]

(***************************************************************************)
(* Cache facade: getCache, setCache, clearCacheByPattern, clearAllCache,   *)
(* getCacheStats (upload.js:444-521).  Every redisClient call is awaited   *)
(* inside the function's try block; a rejected call lands in its catch.    *)
(***************************************************************************)
Rejected == [t |-> "rejected"]

\* getCache after `await redisClient.get(key)` has settled with `reply`
\* (upload.js:508-519); m is the store after the local lookup missed.
GetCacheReply(m, k, reply) ==
    IF reply.t = "rejected"
    THEN [mem |-> m, ret |-> Null, from |-> "error"]
    ELSE IF reply.t = "null"
    THEN [mem |-> m, ret |-> Null, from |-> "miss"]
    ELSE IF JSONparseThrows(reply) \/ MemSetThrows(m)
    THEN [mem |-> m, ret |-> Null, from |-> "error"]
    ELSE [mem |-> MemSet(m, k, JSONparse(reply), BackfillTtl),
          ret |-> JSONparse(reply), from |-> "redis"]

\* getCache(key, useRedis) (upload.js:500-521); getFails: the redis get rejects
GetCache(m, r, open, k, useRedis, getFails) ==
    LET memoryData == MemGet(m, k)
        m1 == MemAfterGet(m, k)
    IN  IF Truthy(memoryData)
        THEN [mem |-> m1, ret |-> memoryData, from |-> "memory"]
        ELSE IF useRedis /\ open
        THEN GetCacheReply(m1, k, IF getFails THEN Rejected ELSE RedisGet(r, k))
        ELSE [mem |-> m1, ret |-> Null, from |-> "miss"]

\* A setCache that writes the Local Cache only while the client is open;
\* C8 tells it from the code.
SetCacheOnlyWhenOpen(m, r, open, k, v, ttl, useRedis, setFails) ==
    IF MemSetThrows(m) \/ ~open
    THEN [mem |-> m, redis |-> r, caught |-> MemSetThrows(m)]
    ELSE LET m1 == MemSet(m, k, v, Min(ttl, LocalCeiling))
         IN  IF useRedis
             THEN IF setFails \/ RedisSetExRejects(ttl)
                  THEN [mem |-> m1, redis |-> r, caught |-> TRUE]
                  ELSE [mem |-> m1,
                        redis |-> RedisSetEx(r, k, ttl, JSONstringify(v)),
                        caught |-> FALSE]
             ELSE [mem |-> m1, redis |-> r, caught |-> FALSE]

\* setCache(key, data, ttl, useRedis) (upload.js:487-497); setFails: the
\* redis setEx rejects.  caught: the catch block ran.
SetCache(m, r, open, k, v, ttl, useRedis, setFails) ==
    IF MemSetThrows(m)
    THEN [mem |-> m, redis |-> r, caught |-> TRUE]
    ELSE LET m1 == MemSet(m, k, v, Min(ttl, LocalCeiling))
         IN  IF useRedis /\ open
             THEN IF setFails \/ RedisSetExRejects(ttl)
                  THEN [mem |-> m1, redis |-> r, caught |-> TRUE]
                  ELSE [mem |-> m1,
                        redis |-> RedisSetEx(r, k, ttl, JSONstringify(v)),
                        caught |-> FALSE]
             ELSE [mem |-> m1, redis |-> r, caught |-> FALSE]

\* The synchronous head of clearCacheByPattern (upload.js:446-449)
ClearLocalKeys(m, pattern) == {k \in MemKeys(m) : Includes(k, pattern)}

\* A clearCacheByPattern that returns the count it logs; C5 tells it from
\* the code.
ClearCacheByPatternReturnsCount(m, r, open, pattern, keysFails, delFails) ==
    LET keysToDelete == ClearLocalKeys(m, pattern)
        m1 == MemRemove(m, keysToDelete)
        redisKeys == RedisKeys(r, pattern)
        n == Cardinality(keysToDelete) + Cardinality(redisKeys)
        quiet == [mem |-> m1, redis |-> r, ret |-> Undefined,
                  didLog |-> FALSE, logged |-> 0, caught |-> FALSE]
    IN  IF ~open THEN quiet
        ELSE IF keysFails THEN [quiet EXCEPT !.caught = TRUE]
        ELSE IF redisKeys # {} /\ delFails THEN [quiet EXCEPT !.caught = TRUE]
        ELSE [mem |-> m1, redis |-> RedisDel(r, redisKeys),
              ret |-> [t |-> "number", n |-> n],
              didLog |-> TRUE, logged |-> n, caught |-> FALSE]

\* clearCacheByPattern(pattern) (upload.js:444-462).  keysFails, delFails:
\* the redis keys / del call rejects.  The function has no return statement;
\* the key count is only written to the debug log (didLog, logged), and only
\* when the redis block ran to its end.
ClearCacheByPattern(m, r, open, pattern, keysFails, delFails) ==
    LET keysToDelete == ClearLocalKeys(m, pattern)
        m1 == MemRemove(m, keysToDelete)
        redisKeys == RedisKeys(r, pattern)
        quiet == [mem |-> m1, redis |-> r, ret |-> Undefined,
                  didLog |-> FALSE, logged |-> 0, caught |-> FALSE]
    IN  IF ~open THEN quiet
        ELSE IF keysFails THEN [quiet EXCEPT !.caught = TRUE]
        ELSE IF redisKeys # {} /\ delFails THEN [quiet EXCEPT !.caught = TRUE]
        ELSE [mem |-> m1, redis |-> RedisDel(r, redisKeys), ret |-> Undefined,
              didLog |-> TRUE,
              logged |-> Cardinality(keysToDelete) + Cardinality(redisKeys),
              caught |-> FALSE]

\* clearAllCache() (upload.js:465-475)
ClearAllCache(m, r, open, flushFails) ==
    [mem |-> MemRemove(m, DOMAIN m),
     redis |-> IF open /\ ~flushFails THEN RedisDel(r, DOMAIN r) ELSE r,
     caught |-> open /\ flushFails]

\* getCacheStats().redis (upload.js:478-484)
GetCacheStats(m, open) ==
    [keys |-> Cardinality(DOMAIN m),
     redis |-> IF open THEN "connected" ELSE "disconnected"]

(***************************************************************************)
(* State.                                                                  *)
(***************************************************************************)
VARIABLES
    mem,      \* memoryCache of this process
    redis,    \* the keys of the Redis server
    isOpen,   \* redisClient.isOpen
    last,     \* the call or request that ran last, its arguments and outcome
    db,       \* the database: the version of each collection's listing
    pending,  \* the redis DEL commands invalidations have yet to send
    phase,    \* "starting", "listening", "exited"; after SIGTERM "quitting",
              \* "rejected", "closing"
    socket,   \* the connection of each redis client and its reconnect loop
    inflight  \* the GET requests whose handler awaits its database query

vars == <<mem, redis, isOpen, last, db, pending, phase, socket, inflight>>
http == <<db, pending, phase, socket, inflight>>

(***************************************************************************)
(* Inputs of the facade-level specification.                               *)
(***************************************************************************)
Keys == {"products:a", "other:c"}
Patterns == {"products", ":", "*"}
Bodies == {<<"doc", 1>>, <<"doc", 2>>}
Values == {Obj(b, "native") : b \in Bodies}
Ttls == {60, 600}
TickSteps == {300}

Empty == [x \in {} |-> Null]

NoCall == [op |-> "none"]

\* The redis clients of the process: redisClient of the cache module
\* (upload.js:363-377) and the client of class RedisClient (part_005:198-
\* 249).  state: "idle" before connect(), "connecting" while the socket is
\* being opened or reopened, "ready", "closed" once retrying has ended.
\* retries: the failed attempts of the running loop; delay: the wait in ms
\* before the attempt under way.
Clients == {"cache", "session"}
SocketIdle == [state |-> "idle", retries |-> 0, delay |-> 0]
SocketReady == [state |-> "ready", retries |-> 0, delay |-> 0]
SocketClosed == [state |-> "closed", retries |-> 0, delay |-> 0]

Entities == {"products", "brands", "categories"}

\* A running server whose redis client connected at startup.
Init ==
    /\ mem = Empty
    /\ redis = Empty
    /\ isOpen = TRUE
    /\ last = NoCall
    /\ db = [e \in Entities |-> 0]
    /\ pending = {}
    /\ phase = "listening"
    /\ socket = [c \in Clients |-> IF c = "cache" THEN SocketReady ELSE SocketIdle]
    /\ inflight = {}

(***************************************************************************)
(* Facade calls, each run to completion.                                   *)
(***************************************************************************)
CallGetCache(k, useRedis, getFails) ==
    LET res == GetCache(mem, redis, isOpen, k, useRedis, getFails)
    IN  /\ getFails => (useRedis /\ isOpen /\ ~Truthy(MemGet(mem, k)))
        /\ mem' = res.mem
        /\ last' = [op |-> "getCache", key |-> k, useRedis |-> useRedis,
                    ret |-> res.ret, rejected |-> getFails]
        /\ UNCHANGED <<redis, isOpen, http>>

CallSetCache(k, v, ttl, useRedis, setFails) ==
    LET res == SetCache(mem, redis, isOpen, k, v, ttl, useRedis, setFails)
    IN  /\ setFails => (useRedis /\ isOpen /\ ~MemSetThrows(mem))
        /\ mem' = res.mem
        /\ redis' = res.redis
        /\ last' = [op |-> "setCache", key |-> k, val |-> v, ttl |-> ttl,
                    useRedis |-> useRedis, ret |-> Undefined, waited |-> 0]
        /\ UNCHANGED <<isOpen, http>>

CallClearCacheByPattern(p, keysFails, delFails) ==
    LET res == ClearCacheByPattern(mem, redis, isOpen, p, keysFails, delFails)
    IN  /\ keysFails => (isOpen /\ ~delFails)
        /\ delFails => (isOpen /\ RedisKeys(redis, p) # {})
        /\ mem' = res.mem
        /\ redis' = res.redis
        /\ last' = [op |-> "clearCacheByPattern", pattern |-> p,
                    ret |-> res.ret, didLog |-> res.didLog,
                    logged |-> res.logged]
        /\ UNCHANGED <<isOpen, http>>

CallClearAllCache(flushFails) ==
    LET res == ClearAllCache(mem, redis, isOpen, flushFails)
    IN  /\ flushFails => isOpen
        /\ mem' = res.mem
        /\ redis' = res.redis
        /\ last' = [op |-> "clearAllCache", ret |-> Undefined]
        /\ UNCHANGED <<isOpen, http>>

CallGetCacheStats ==
    /\ last' = [op |-> "getCacheStats", ret |-> GetCacheStats(mem, isOpen)]
    /\ UNCHANGED <<mem, redis, isOpen, http>>

(***************************************************************************)
(* Environment: time, the periodic check, the redis connection.            *)
(***************************************************************************)
\* d seconds pass; an entry that was already expired is gone after one
\* full check period.
Tick(d) ==
    /\ DOMAIN mem # {} \/ DOMAIN redis # {}
    /\ mem' = MemAge(IF d >= CheckPeriod THEN MemSweep(mem) ELSE mem, d)
    /\ redis' = RedisAge(redis, d)
    /\ last' = NoCall
    /\ UNCHANGED <<isOpen, http>>

\* the periodic check of node-cache fires
Sweep ==
    /\ \E k \in DOMAIN mem : MemExpired(mem[k])
    /\ mem' = MemSweep(mem)
    /\ last' = NoCall
    /\ UNCHANGED <<redis, isOpen, http>>

\* the reconnect strategy gave up (upload.js:369-375): the client is closed
RedisEnd ==
    /\ isOpen
    /\ isOpen' = FALSE
    /\ socket' = [socket EXCEPT !["cache"] = SocketClosed]
    /\ last' = NoCall
    /\ UNCHANGED <<mem, redis, db, pending, phase, inflight>>

Next ==
    \/ \E k \in Keys, u \in BOOLEAN, f \in BOOLEAN : CallGetCache(k, u, f)
    \/ \E k \in Keys, v \in Values, t \in Ttls, u \in BOOLEAN, f \in BOOLEAN :
          CallSetCache(k, v, t, u, f)
    \/ \E p \in Patterns, f \in BOOLEAN, g \in BOOLEAN :
          CallClearCacheByPattern(p, f, g)
    \/ \E f \in BOOLEAN : CallClearAllCache(f)
    \/ CallGetCacheStats
    \/ \E d \in TickSteps : Tick(d)
    \/ Sweep
    \/ RedisEnd

Spec == Init /\ [][Next]_vars

(***************************************************************************)
(* The same facade calls on three keys, so that the Local Cache can hold   *)
(* maxKeys keys when a call names a further key.                           *)
(***************************************************************************)
KeysFull == {"products:a", "products:b", "other:c"}
ValuesFull == {Obj(<<"doc", 1>>, "native")}
TtlsFull == {600}

NextFull ==
    \/ \E k \in KeysFull, u \in BOOLEAN, f \in BOOLEAN : CallGetCache(k, u, f)
    \/ \E k \in KeysFull, v \in ValuesFull, t \in TtlsFull, u \in BOOLEAN,
          f \in BOOLEAN : CallSetCache(k, v, t, u, f)
    \/ \E p \in Patterns, f \in BOOLEAN, g \in BOOLEAN :
          CallClearCacheByPattern(p, f, g)
    \/ \E d \in TickSteps : Tick(d)
    \/ Sweep
    \/ RedisEnd

SpecFull == Init /\ [][NextFull]_vars

(***************************************************************************)
(* The facade over the application keys of the product controller          *)
(* (product.controller.js:545, 1019, 1114) and patterns that are ordinary   *)
(* text or carry a glob character.                                         *)
(***************************************************************************)
KeysApp == {"product:p1", "related_products:p1:4", "popular_products:10"}
PatternsApp == {"product:", "products:", "p?", "*"}

NextPattern ==
    \/ \E k \in KeysApp, v \in ValuesFull, t \in TtlsFull, u \in BOOLEAN :
          CallSetCache(k, v, t, u, FALSE)
    \/ \E p \in PatternsApp, f \in BOOLEAN, g \in BOOLEAN :
          CallClearCacheByPattern(p, f, g)
    \/ RedisEnd

SpecPattern == Init /\ [][NextPattern]_vars

(***************************************************************************)
(* The facade under every ttl a caller can pass, 0 included, with the time *)
(* that passes after a setCache kept in `last`.                            *)
(***************************************************************************)
TtlsAny == {0, 60, 600}
WaitSteps == {300}

\* d seconds pass during which the process makes no cache call
Wait(d) ==
    /\ DOMAIN mem # {} \/ DOMAIN redis # {}
    /\ mem' = MemAge(IF d >= CheckPeriod THEN MemSweep(mem) ELSE mem, d)
    /\ redis' = RedisAge(redis, d)
    /\ last' = IF last.op = "setCache"
               THEN [last EXCEPT !.waited = Min(@ + d, 2 * LocalCeiling + 1)]
               ELSE NoCall
    /\ UNCHANGED <<isOpen, http>>

NextTtl ==
    \/ \E k \in Keys, u \in BOOLEAN, f \in BOOLEAN : CallGetCache(k, u, f)
    \/ \E k \in Keys, v \in ValuesFull, t \in TtlsAny, u \in BOOLEAN,
          f \in BOOLEAN : CallSetCache(k, v, t, u, f)
    \/ \E d \in WaitSteps : Wait(d)
    \/ Sweep
    \/ RedisEnd

SpecTtl == Init /\ [][NextTtl]_vars

(***************************************************************************)
(* Response-cache middleware (upload.js:387-441).                          *)
(***************************************************************************)
\* const key = `cache:${req.originalUrl}`
CacheKey(url) == "cache:" \o url

\* A lookup whose backfill keeps the entry for an hour; C11 tells it from
\* the code.
MwLookupHourBackfill(m, r, open, key, useRedis, getFails) ==
    LET memoryCached == MemGet(m, key)
        m1 == MemAfterGet(m, key)
        redisCached == RedisGet(r, key)
    IN  IF Truthy(memoryCached)
        THEN [mem |-> m1, outcome |-> "hit", data |-> memoryCached]
        ELSE IF useRedis /\ open
        THEN IF getFails
             THEN [mem |-> m1, outcome |-> "error", data |-> Undefined]
             ELSE IF redisCached.t = "null"
             THEN [mem |-> m1, outcome |-> "miss", data |-> Undefined]
             ELSE IF JSONparseThrows(redisCached) \/ MemSetThrows(m1)
             THEN [mem |-> m1, outcome |-> "error", data |-> Undefined]
             ELSE [mem |-> MemSet(m1, key, JSONparse(redisCached), 60 * 60),
                   outcome |-> "hit", data |-> JSONparse(redisCached)]
        ELSE [mem |-> m1, outcome |-> "miss", data |-> Undefined]

\* The lookup of cacheMiddleware (upload.js:395-415, catch at 436-439).
\* outcome "hit": res.json(cached) was called and the middleware returned;
\* "miss": res.json is wrapped and next() called; "error": the catch block
\* called next() and res.json is not wrapped.
MwLookup(m, r, open, key, useRedis, getFails) ==
    LET memoryCached == MemGet(m, key)
        m1 == MemAfterGet(m, key)
        redisCached == RedisGet(r, key)
    IN  IF Truthy(memoryCached)
        THEN [mem |-> m1, outcome |-> "hit", data |-> memoryCached]
        ELSE IF useRedis /\ open
        THEN IF getFails
             THEN [mem |-> m1, outcome |-> "error", data |-> Undefined]
             ELSE IF redisCached.t = "null"
             THEN [mem |-> m1, outcome |-> "miss", data |-> Undefined]
             ELSE IF JSONparseThrows(redisCached) \/ MemSetThrows(m1)
             THEN [mem |-> m1, outcome |-> "error", data |-> Undefined]
             ELSE [mem |-> MemSet(m1, key, JSONparse(redisCached), BackfillTtl),
                   outcome |-> "hit", data |-> JSONparse(redisCached)]
        ELSE [mem |-> m1, outcome |-> "miss", data |-> Undefined]

\* A wrapper that stores the payload whatever the status code; C15 tells it
\* from the code.
WrappedJsonAnyStatus(m, r, open, key, duration, useRedis, status, data, setFails) ==
    IF MemSetThrows(m)
    THEN [mem |-> m, redis |-> r, threw |-> TRUE]
    ELSE [mem |-> MemSet(m, key, data, Min(duration, LocalCeiling)),
          redis |-> IF useRedis /\ open /\ ~setFails
                       /\ ~RedisSetExRejects(duration)
                    THEN RedisSetEx(r, key, duration, JSONstringify(data))
                    ELSE r,
          threw |-> FALSE]

\* A middleware that treats every method as it treats GET; C16 tells it
\* from the code.
CacheMiddlewareAnyMethod(method, m, r, open, key, useRedis, getFails) ==
    MwLookup(m, r, open, key, useRedis, getFails)

\* cacheMiddleware up to the point where it has answered or called next()
\* (upload.js:388-415, 436-439).  outcome "pass": the request is not a GET,
\* next() was called at once (upload.js:389-391) and res.json is not wrapped.
CacheMiddleware(method, m, r, open, key, useRedis, getFails) ==
    IF method # "GET"
    THEN [mem |-> m, outcome |-> "pass", data |-> Undefined]
    ELSE MwLookup(m, r, open, key, useRedis, getFails)

\* The wrapped res.json (upload.js:419-433) called with `data` while
\* res.statusCode is `status`.  threw: memoryCache.set threw out of res.json,
\* before originalJson was called.  setFails: the unawaited setEx rejects,
\* which its .catch logs.
WrappedJson(m, r, open, key, duration, useRedis, status, data, setFails) ==
    IF status >= 200 /\ status < 300
    THEN IF MemSetThrows(m)
         THEN [mem |-> m, redis |-> r, threw |-> TRUE]
         ELSE [mem |-> MemSet(m, key, data, Min(duration, LocalCeiling)),
               redis |-> IF useRedis /\ open /\ ~setFails
                            /\ ~RedisSetExRejects(duration)
                         THEN RedisSetEx(r, key, duration, JSONstringify(data))
                         ELSE r,
               threw |-> FALSE]
    ELSE [mem |-> m, redis |-> r, threw |-> FALSE]

(***************************************************************************)
(* Routes and handlers.                                                    *)
(***************************************************************************)
ProductsUrl == "/api/v1/products"
BrandsUrl == "/api/v1/brands"
Urls == {ProductsUrl, BrandsUrl}

\* app.use('/api/v1/products', cacheMiddleware(300, true)) and
\* app.use('/api/v1/brands', cacheMiddleware(1800, true)) (part_000:210-212)
HealthUrl == "/health"
Duration(url) ==
    IF url = HealthUrl THEN 30
    ELSE IF Includes(url, ProductsUrl) THEN 300 ELSE 1800
UseRedis(url) == url # HealthUrl

\* ApiResponse.success(res, data) and ApiResponse.error(res, message): the
\* status and the body handed to res.status(..).json(..)
ApiSuccess(data) ==
    [status |-> 200, data |-> Obj(<<"success", data.body[2]>>, data.dates)]
ApiError(code) ==
    [status |-> code, data |-> Obj(<<"error", code>>, "string")]

\* `products:${JSON.stringify(req.query)}` of a request without a query
ProductsAppKey == "products:{}"
ProductsAppTtl == 300

\* ProductController.getProducts up to its ApiResponse call
\* (product.controller.js:355-518).  own: the response the handler makes.
GetProducts(m, r, open, version, fault) ==
    LET g == GetCache(m, r, open, ProductsAppKey, TRUE, fault = "appGet")
        result == Obj(<<"products", version>>, "native")
        st == SetCache(g.mem, r, open, ProductsAppKey, result, ProductsAppTtl,
                       TRUE, fault = "appSet")
    IN  IF Truthy(g.ret)
        THEN [mem |-> g.mem, redis |-> r, own |-> ApiSuccess(g.ret)]
        ELSE IF fault = "db"
        THEN [mem |-> g.mem, redis |-> r, own |-> ApiError(500)]
        ELSE [mem |-> st.mem, redis |-> st.redis, own |-> ApiSuccess(result)]

\* `product:${id}` and the TTL getProductById caches a product with
ProductKey == "product:p1"
ProductTtl == 600
ProductByIdUrl == "/api/v1/products/p1"

\* ProductController.getProductById up to its ApiResponse call
\* (product.controller.js:521-606).  The route hands the static method to
\* the router as a plain function (product.routes.js:16), so `this` is
\* undefined in it: after the product was read and cached, the call
\* this.updateProductViews(...) throws a TypeError, which the catch of the
\* handler answers with ApiResponse.error; updateProductViews never runs.
GetProductById(m, r, open, version, fault) ==
    LET g == GetCache(m, r, open, ProductKey, TRUE, fault = "appGet")
        product == Obj(<<"product", version>>, "native")
        st == SetCache(g.mem, r, open, ProductKey, product, ProductTtl,
                       TRUE, fault = "appSet")
    IN  IF Truthy(g.ret)
        THEN [mem |-> g.mem, redis |-> r, own |-> ApiSuccess(g.ret)]
        ELSE IF fault = "db"
        THEN [mem |-> g.mem, redis |-> r, own |-> ApiError(500)]
        ELSE [mem |-> st.mem, redis |-> st.redis, own |-> ApiError(500)]

\* BrandController.getBrands up to its res.json call
\* (brand.controller.js:56-88)
GetBrands(m, r, version, fault) ==
    IF fault = "db"
    THEN [mem |-> m, redis |-> r, own |-> ApiError(500)]
    ELSE [mem |-> m, redis |-> r,
          own |-> [status |-> 200,
                   data |-> Obj(<<"success", version>>, "native")]]

\* app.get('/health') (part_000:261-273).  The handler loads the cache
\* module by a path relative to its own file; fault "require": the path does
\* not resolve, the throw reaches the global error handler (part_000:344-
\* 364), which answers 500.  body[1] is the redis field of the payload.
GetHealth(m, r, open, fault) ==
    IF fault = "require"
    THEN [mem |-> m, redis |-> r, own |-> ApiError(500)]
    ELSE [mem |-> m, redis |-> r,
          own |-> [status |-> 200,
                   data |-> Obj(<<IF open THEN "connected" ELSE "disconnected",
                                  0>>, "string")]]

Handler(url, m, r, open, d, fault) ==
    IF url = ProductsUrl
    THEN GetProducts(m, r, open, d["products"], fault)
    ELSE IF url = HealthUrl
    THEN GetHealth(m, r, open, fault)
    ELSE IF url = ProductByIdUrl
    THEN GetProductById(m, r, open, d["products"], fault)
    ELSE GetBrands(m, r, d["brands"], fault)

\* One GET request from the middleware to the response on the wire.  A
\* throw out of the wrapped res.json lands in the handler's catch block,
\* which answers 500 (product.controller.js:514-517, brand.controller.js:84-87).
Get(url, m, r, open, d, fault) ==
    LET key == CacheKey(url)
        lk == CacheMiddleware("GET", m, r, open, key, UseRedis(url),
                              fault = "mwGet")
        h == Handler(url, lk.mem, r, open, d, fault)
        w == WrappedJson(h.mem, h.redis, open, key, Duration(url), UseRedis(url),
                         h.own.status, h.own.data, fault = "mwSet")
    IN  IF lk.outcome = "hit"
        THEN [mem |-> lk.mem, redis |-> r, handlerRan |-> FALSE,
              ownStatus |-> 0, status |-> 200, text |-> JSONstringify(lk.data)]
        ELSE IF lk.outcome = "error"
        THEN [mem |-> h.mem, redis |-> h.redis, handlerRan |-> TRUE,
              ownStatus |-> h.own.status, status |-> h.own.status,
              text |-> JSONstringify(h.own.data)]
        ELSE IF w.threw
        THEN [mem |-> h.mem, redis |-> h.redis, handlerRan |-> TRUE,
              ownStatus |-> h.own.status, status |-> 500,
              text |-> JSONstringify(ApiError(500).data)]
        ELSE [mem |-> w.mem, redis |-> w.redis, handlerRan |-> TRUE,
              ownStatus |-> h.own.status, status |-> h.own.status,
              text |-> JSONstringify(h.own.data)]

(***************************************************************************)
(* Write handlers: their route, the collection they write, the status of   *)
(* their success response and the patterns they hand to                    *)
(* clearCacheByPattern.                                                    *)
(***************************************************************************)
ProductId == "p1"

\* ProductController.createProduct (product.controller.js:309-337)
CreateProduct ==
    [name |-> "createProduct", method |-> "POST", url |-> "/api/v1/products",
     entity |-> "products", status |-> 201,
     patterns |-> {"cache:/api/v1/products", "product_form_data"}]
\* ProductController.updateProduct (product.controller.js:772-792)
UpdateProduct ==
    [name |-> "updateProduct", method |-> "PUT",
     url |-> "/api/v1/products/" \o ProductId,
     entity |-> "products", status |-> 200,
     patterns |-> {"cache:/api/v1/products", "product:" \o ProductId,
                   "product_form_data"}]
\* ProductController.deleteProduct (product.controller.js:866-876)
DeleteProduct ==
    [name |-> "deleteProduct", method |-> "DELETE",
     url |-> "/api/v1/products/" \o ProductId,
     entity |-> "products", status |-> 200,
     patterns |-> {"cache:/api/v1/products", "product:" \o ProductId,
                   "product_form_data"}]
\* ProductController.updateAiScores (product.controller.js:1090-1100)
UpdateAiScores ==
    [name |-> "updateAiScores", method |-> "PATCH",
     url |-> "/api/v1/products/" \o ProductId \o "/ai-scores",
     entity |-> "products", status |-> 200,
     patterns |-> {"cache:/api/v1/products", "product:" \o ProductId,
                   "popular_products:"}]
\* ProductController.bulkUpdateProducts (product.controller.js:1199-1212)
BulkUpdateProducts ==
    [name |-> "bulkUpdateProducts", method |-> "PATCH",
     url |-> "/api/v1/products/bulk/update",
     entity |-> "products", status |-> 200,
     patterns |-> {"cache:/api/v1/products", "product:", "popular_products:",
                   "seller_products:", "search:", "related_products:"}]
\* ProductController.quickUpdateStatus (product.controller.js:1370-1381)
QuickUpdateStatus ==
    [name |-> "quickUpdateStatus", method |-> "PATCH",
     url |-> "/api/v1/products/" \o ProductId \o "/status",
     entity |-> "products", status |-> 200,
     patterns |-> {"cache:/api/v1/products", "product:" \o ProductId,
                   "admin_products:"}]
\* BrandController.createBrand (brand.controller.js:42-48)
CreateBrand ==
    [name |-> "createBrand", method |-> "POST", url |-> "/api/v1/brands",
     entity |-> "brands", status |-> 201, patterns |-> {}]
\* BrandController.toggleBrandStatus (brand.controller.js:212-221)
ToggleBrandStatus ==
    [name |-> "toggleBrandStatus", method |-> "PATCH",
     url |-> "/api/v1/brands/b1/toggle-status",
     entity |-> "brands", status |-> 200, patterns |-> {}]
\* CategoryController.createCategory (brand.controller.js:281-290)
CreateCategory ==
    [name |-> "createCategory", method |-> "POST",
     url |-> "/api/v1/categories",
     entity |-> "categories", status |-> 201, patterns |-> {}]

WriteHandlers ==
    {CreateProduct, UpdateProduct, QuickUpdateStatus,
     CreateBrand, ToggleBrandStatus, CreateCategory}

\* the writes of the product controller
ProductWriteHandlers ==
    {CreateProduct, UpdateProduct, DeleteProduct, UpdateAiScores,
     BulkUpdateProducts, QuickUpdateStatus}

\* The unawaited Promise.all of a handler's clearCacheByPattern calls, up to
\* the point where every call waits for its redis KEYS reply: the local keys
\* are deleted, and each call whose KEYS finds keys goes on to a DEL (tasks).
\* bad: the patterns whose KEYS call rejects, which the call's own catch
\* logs (upload.js:459-461).
Invalidate(w, m, r, open, bad) ==
    [mem |-> MemRemove(m, UNION {ClearLocalKeys(m, p) : p \in w.patterns}),
     tasks |-> {[keys |-> RedisKeys(r, p), by |-> w.name] :
                   p \in {q \in w.patterns \ bad :
                             open /\ RedisKeys(r, q) # {}}}]

\* A write handler that awaits its invalidation and lets a rejected redis
\* call reach its catch block; C19 tells it from the code.
WriteHandlerAwaitsClear(w, m, r, open, version, dbFails, bad) ==
    LET inv == Invalidate(w, m, r, open, bad)
    IN
    IF dbFails
    THEN [mem |-> m, tasks |-> {}, wrote |-> FALSE, own |-> ApiError(500),
          cleared |-> {}]
    ELSE [mem |-> inv.mem,
          tasks |-> inv.tasks,
          wrote |-> TRUE,
          own |-> IF bad # {} THEN ApiError(500)
                  ELSE [status |-> w.status,
                        data |-> Obj(<<"success", version + 1>>, "native")],
          cleared |-> w.patterns]

\* A write handler from its database write to its response: when the write
\* succeeded it starts the invalidation and answers with its success status
\* without waiting for it.
WriteHandler(w, m, r, open, version, dbFails, bad) ==
    LET inv == Invalidate(w, m, r, open, bad)
    IN
    IF dbFails
    THEN [mem |-> m, tasks |-> {}, wrote |-> FALSE, own |-> ApiError(500),
          cleared |-> {}]
    ELSE [mem |-> inv.mem,
          tasks |-> inv.tasks,
          wrote |-> TRUE,
          own |-> [status |-> w.status,
                   data |-> Obj(<<"success", version + 1>>, "native")],
          cleared |-> w.patterns]

\* One write request from the middleware to the response on the wire.
Write(w, m, r, open, d, dbFails, bad) ==
    LET key == CacheKey(w.url)
        mw == CacheMiddleware(w.method, m, r, open, key, UseRedis(w.url),
                              FALSE)
        h == WriteHandler(w, mw.mem, r, open, d[w.entity], dbFails, bad)
        wj == WrappedJson(h.mem, r, open, key, Duration(w.url),
                          UseRedis(w.url), h.own.status, h.own.data, FALSE)
    IN  IF mw.outcome = "hit"
        THEN [mem |-> mw.mem, redis |-> r, tasks |-> {}, wrote |-> FALSE,
              mw |-> mw.outcome, status |-> 200,
              text |-> JSONstringify(mw.data), cleared |-> {}]
        ELSE IF mw.outcome = "miss"
        THEN [mem |-> IF wj.threw THEN h.mem ELSE wj.mem,
              redis |-> IF wj.threw THEN r ELSE wj.redis,
              tasks |-> h.tasks, wrote |-> h.wrote, mw |-> mw.outcome,
              status |-> IF wj.threw THEN 500 ELSE h.own.status,
              text |-> JSONstringify(IF wj.threw THEN ApiError(500).data
                                     ELSE h.own.data),
              cleared |-> h.cleared]
        ELSE [mem |-> h.mem, redis |-> r, tasks |-> h.tasks,
              wrote |-> h.wrote, mw |-> mw.outcome, status |-> h.own.status,
              text |-> JSONstringify(h.own.data), cleared |-> h.cleared]

(***************************************************************************)
(* The HTTP-level specification: startup, requests handled one at a time,  *)
(* the redis half of a write's invalidation running after its response.    *)
(***************************************************************************)
HttpTickSteps == {900}

\* number of writes the database has taken
Written(d) == d["products"] + d["brands"] + d["categories"]

Faults == {"none", "mwGet", "appGet", "appSet", "mwSet", "db"}

InitHttp ==
    /\ mem = Empty
    /\ redis = Empty
    /\ isOpen = FALSE
    /\ last = NoCall
    /\ db = [e \in Entities |-> 0]
    /\ pending = {}
    /\ phase = "starting"
    /\ socket = [c \in Clients |-> SocketIdle]
    /\ inflight = {}

\* startServer (part_000:29-91): a rejected redisClient.connect() lands in
\* the catch block, which calls process.exit(1); connectDB exits the process
\* itself when it fails (part_005:57-60).
StartServer(redisOk, dbOk) ==
    /\ phase = "starting"
    /\ ~redisOk => dbOk
    /\ phase' = IF redisOk /\ dbOk THEN "listening" ELSE "exited"
    /\ isOpen' = (redisOk /\ dbOk)
    /\ socket' = [socket EXCEPT !["cache"] = IF redisOk /\ dbOk THEN SocketReady
                                             ELSE SocketClosed]
    /\ last' = [op |-> "startServer", redisOk |-> redisOk, dbOk |-> dbOk]
    /\ UNCHANGED <<mem, redis, db, pending, inflight>>

\* GET url, through cacheMiddleware and the route's handler
GetRequest(url, fault) ==
    LET res == Get(url, mem, redis, isOpen, db, fault)
    IN  /\ phase = "listening"
        /\ fault \in {"mwGet", "appGet", "appSet", "mwSet"} => isOpen
        /\ mem' = res.mem
        /\ redis' = res.redis
        /\ last' = [op |-> "GET", url |-> url, handlerRan |-> res.handlerRan,
                    ownStatus |-> res.ownStatus, status |-> res.status,
                    text |-> res.text,
                    rejected |-> (fault = "mwGet"
                                  /\ ~Truthy(MemGet(mem, CacheKey(url))))]
        /\ UNCHANGED <<isOpen, db, pending, phase, socket, inflight>>

\* A POST, PUT, PATCH or DELETE request.  bad: the patterns of the handler's
\* invalidation whose redis KEYS call rejects.
WriteRequest(w, dbFails, bad) ==
    LET res == Write(w, mem, redis, isOpen, db, dbFails, bad)
    IN  /\ phase = "listening"
        /\ Written(db) < MaxWrites
        /\ bad # {} => (isOpen /\ ~dbFails)
        /\ mem' = res.mem
        /\ redis' = res.redis
        /\ db' = IF res.wrote THEN [db EXCEPT ![w.entity] = @ + 1] ELSE db
        /\ pending' = pending \cup res.tasks
        /\ last' = [op |-> "WRITE", name |-> w.name, entity |-> w.entity,
                    mw |-> res.mw, status |-> res.status, text |-> res.text,
                    cleared |-> res.cleared, failed |-> bad]
        /\ UNCHANGED <<isOpen, phase, socket, inflight>>

\* await redisClient.del(redisKeys) of a pending invalidation (upload.js:
\* 455).  delFails: the DEL rejects, which the call's catch logs.
InvalidateDel(task, delFails) ==
    /\ task \in pending
    /\ delFails => isOpen
    /\ pending' = pending \ {task}
    /\ redis' = IF isOpen /\ ~delFails THEN RedisDel(redis, task.keys)
                ELSE redis
    /\ last' = [op |-> "invalidated", by |-> task.by, keys |-> task.keys,
                failed |-> delFails]
    /\ UNCHANGED <<mem, isOpen, db, phase, socket, inflight>>

NextHttp ==
    \/ \E a \in BOOLEAN, b \in BOOLEAN : StartServer(a, b)
    \/ \E u \in Urls, f \in Faults : GetRequest(u, f)
    \/ \E w \in WriteHandlers, f \in BOOLEAN : WriteRequest(w, f, {})
    \/ \E task \in pending : InvalidateDel(task, FALSE)
    \/ \E d \in HttpTickSteps : Tick(d)
    \/ Sweep
    \/ RedisEnd

SpecHttp == InitHttp /\ [][NextHttp]_vars

(***************************************************************************)
(* The product writes with failures of their invalidation: a rejected      *)
(* redis KEYS call of one clearCacheByPattern, a rejected DEL.             *)
(***************************************************************************)
NextInval ==
    \/ \E a \in BOOLEAN : StartServer(a, TRUE)
    \/ GetRequest(ProductsUrl, "none")
    \/ \E w \in ProductWriteHandlers, f \in BOOLEAN :
          \E bad \in {{}} \cup {{p} : p \in w.patterns} : WriteRequest(w, f, bad)
    \/ \E task \in pending, f \in BOOLEAN : InvalidateDel(task, f)
    \/ \E d \in HttpTickSteps : Tick(d)
    \/ RedisEnd

SpecInval == InitHttp /\ [][NextInval]_vars

(***************************************************************************)
(* Operations routes of the app: GET /health and DELETE /api/cache/clear.  *)
(***************************************************************************)
\* The pattern query parameter of a request that has none
NoPattern == ""

\* app.delete('/api/cache/clear') (part_000:243-258) up to its response.
\* The route has no middleware of its own: whether the requester is an
\* admin is not looked at.  found: whether require('./src/middleware/cache')
\* inside the handler resolves; a throw lands in the handler's catch.
CacheClear(m, r, open, pattern, found, redisFails) ==
    LET byPattern == ClearCacheByPattern(m, r, open, pattern, redisFails, FALSE)
        all == ClearAllCache(m, r, open, redisFails)
    IN  IF pattern # NoPattern
        THEN [mem |-> byPattern.mem, redis |-> byPattern.redis,
              status |-> 200, success |-> TRUE]
        ELSE IF ~found
        THEN [mem |-> m, redis |-> r, status |-> 500, success |-> FALSE]
        ELSE [mem |-> all.mem, redis |-> all.redis,
              status |-> 200, success |-> TRUE]

CacheClearRequest(pattern, admin, found, redisFails) ==
    LET res == CacheClear(mem, redis, isOpen, pattern, found, redisFails)
    IN  /\ phase = "listening"
        /\ redisFails => isOpen
        /\ pattern # NoPattern => found
        /\ mem' = res.mem
        /\ redis' = res.redis
        /\ last' = [op |-> "CLEAR", pattern |-> pattern, admin |-> admin,
                    found |-> found, status |-> res.status,
                    success |-> res.success]
        /\ UNCHANGED <<isOpen, http>>

OpsTickSteps == {30}

NextOps ==
    \/ \E a \in BOOLEAN : StartServer(a, TRUE)
    \/ \E f \in {"none", "require"} : GetRequest(HealthUrl, f)
    \/ GetRequest(ProductsUrl, "none")
    \/ \E p \in Patterns \cup {NoPattern}, a \in BOOLEAN, found \in BOOLEAN,
          f \in BOOLEAN : CacheClearRequest(p, a, found, f)
    \/ \E d \in OpsTickSteps : Tick(d)
    \/ RedisEnd

SpecOps == InitHttp /\ [][NextOps]_vars

(***************************************************************************)
(* The product page: GET /api/v1/products/:id and the writes of that       *)
(* product.                                                                *)
(***************************************************************************)
NextProduct ==
    \/ \E a \in BOOLEAN : StartServer(a, TRUE)
    \/ \E f \in {"none", "db", "appGet"} : GetRequest(ProductByIdUrl, f)
    \/ \E f \in BOOLEAN : WriteRequest(UpdateProduct, f, {})
    \/ \E task \in pending : InvalidateDel(task, FALSE)
    \/ \E d \in HttpTickSteps : Tick(d)
    \/ RedisEnd

SpecProduct == InitHttp /\ [][NextProduct]_vars

(***************************************************************************)
(* An authenticated route behind the response cache:                       *)
(* GET /api/v1/products/seller/my-products (product.routes.js:23).  The     *)
(* cacheMiddleware of the mount (part_000:210) runs before the router, and  *)
(* so before authenticateToken and authorizeRoles of the route.            *)
(***************************************************************************)
SellerUrl == "/api/v1/products/seller/my-products"
Anonymous == "anonymous"
Requesters == {Anonymous, "sellerA", "sellerB"}

\* `seller_products:${sellerId}:${page}:${limit}` of a request without query
SellerKey(who) == "seller_products:" \o who \o ":1:10"
SellerTtl == 120

\* authenticateToken (upload.js:233-263): no token, no handler
Unauthorized == [status |-> 401, data |-> Obj(<<"error", 401>>, "string")]

\* ProductController.getSellerProducts up to its ApiResponse call
\* (product.controller.js:882-939).  body[1] of the payload stands for the
\* seller whose products it lists.
GetSellerProducts(who, m, r, open, version) ==
    LET key == SellerKey(who)
        g == GetCache(m, r, open, key, TRUE, FALSE)
        result == Obj(<<who, version>>, "native")
        st == SetCache(g.mem, r, open, key, result, SellerTtl, TRUE, FALSE)
    IN  IF Truthy(g.ret)
        THEN [mem |-> g.mem, redis |-> r,
              own |-> [status |-> 200, data |-> g.ret]]
        ELSE [mem |-> st.mem, redis |-> st.redis,
              own |-> [status |-> 200, data |-> result]]

\* One GET of the seller route by requester `who`, from the middleware of
\* the mount to the response on the wire.
GetAs(who, m, r, open, d) ==
    LET key == CacheKey(SellerUrl)
        lk == CacheMiddleware("GET", m, r, open, key, UseRedis(SellerUrl),
                              FALSE)
        h == IF who = Anonymous
             THEN [mem |-> lk.mem, redis |-> r, own |-> Unauthorized]
             ELSE GetSellerProducts(who, lk.mem, r, open, d["products"])
        w == WrappedJson(h.mem, h.redis, open, key, Duration(SellerUrl),
                         UseRedis(SellerUrl), h.own.status, h.own.data, FALSE)
    IN  IF lk.outcome = "hit"
        THEN [mem |-> lk.mem, redis |-> r, handlerRan |-> FALSE,
              status |-> 200, text |-> JSONstringify(lk.data)]
        ELSE IF lk.outcome = "error"
        THEN [mem |-> h.mem, redis |-> h.redis, handlerRan |-> TRUE,
              status |-> h.own.status, text |-> JSONstringify(h.own.data)]
        ELSE IF w.threw
        THEN [mem |-> h.mem, redis |-> h.redis, handlerRan |-> TRUE,
              status |-> 500, text |-> JSONstringify(ApiError(500).data)]
        ELSE [mem |-> w.mem, redis |-> w.redis, handlerRan |-> TRUE,
              status |-> h.own.status, text |-> JSONstringify(h.own.data)]

SellerRequest(who) ==
    LET res == GetAs(who, mem, redis, isOpen, db)
    IN  /\ phase = "listening"
        /\ mem' = res.mem
        /\ redis' = res.redis
        /\ last' = [op |-> "GET", url |-> SellerUrl, who |-> who,
                    handlerRan |-> res.handlerRan, status |-> res.status,
                    text |-> res.text]
        /\ UNCHANGED <<isOpen, db, pending, phase, socket, inflight>>

AuthTickSteps == {120}

NextAuth ==
    \/ \E a \in BOOLEAN : StartServer(a, TRUE)
    \/ \E who \in Requesters : SellerRequest(who)
    \/ \E f \in BOOLEAN : WriteRequest(CreateProduct, f, {})
    \/ \E task \in pending : InvalidateDel(task, FALSE)
    \/ \E d \in AuthTickSteps : Tick(d)
    \/ RedisEnd

SpecAuth == InitHttp /\ [][NextAuth]_vars

(***************************************************************************)
(* A GET of the product list taken apart at the await of its database      *)
(* query (product.controller.js:480-500), so that a write can run between  *)
(* the query and the caching of its result.                                *)
(***************************************************************************)
\* cacheMiddleware and getProducts up to the answer of the database query:
\* both lookups missed.  read: the version of the listing the query saw.
GetBegin(url) ==
    LET key == CacheKey(url)
        lk == CacheMiddleware("GET", mem, redis, isOpen, key, UseRedis(url),
                              FALSE)
        g == GetCache(lk.mem, redis, isOpen, ProductsAppKey, TRUE, FALSE)
    IN  /\ phase = "listening"
        /\ inflight = {}
        /\ lk.outcome = "miss"
        /\ ~Truthy(g.ret)
        /\ mem' = g.mem
        /\ inflight' = {[url |-> url, read |-> db["products"]]}
        /\ last' = [op |-> "GETbegin", url |-> url]
        /\ UNCHANGED <<redis, isOpen, db, pending, phase, socket>>

\* The rest of getProducts and the wrapped res.json: setCache of the result
\* (product.controller.js:511), ApiResponse.success, the store under
\* cache:<originalUrl> (upload.js:419-433).
GetEnd(req) ==
    LET key == CacheKey(req.url)
        result == Obj(<<"products", req.read>>, "native")
        st == SetCache(mem, redis, isOpen, ProductsAppKey, result,
                       ProductsAppTtl, TRUE, FALSE)
        own == ApiSuccess(result)
        w == WrappedJson(st.mem, st.redis, isOpen, key, Duration(req.url),
                         UseRedis(req.url), own.status, own.data, FALSE)
    IN  /\ req \in inflight
        /\ inflight' = inflight \ {req}
        /\ mem' = IF w.threw THEN st.mem ELSE w.mem
        /\ redis' = IF w.threw THEN st.redis ELSE w.redis
        /\ last' = [op |-> "GETend", url |-> req.url, read |-> req.read,
                    status |-> IF w.threw THEN 500 ELSE own.status,
                    text |-> JSONstringify(IF w.threw THEN ApiError(500).data
                                           ELSE own.data)]
        /\ UNCHANGED <<isOpen, db, pending, phase, socket>>

NextRace ==
    \/ \E a \in BOOLEAN : StartServer(a, TRUE)
    \/ GetRequest(ProductsUrl, "none")
    \/ GetBegin(ProductsUrl)
    \/ \E req \in inflight : GetEnd(req)
    \/ \E w \in {CreateProduct, UpdateProduct}, f \in BOOLEAN :
          WriteRequest(w, f, {})
    \/ \E task \in pending : InvalidateDel(task, FALSE)
    \/ \E d \in HttpTickSteps : Tick(d)
    \/ RedisEnd

SpecRace == InitHttp /\ [][NextRace]_vars

(***************************************************************************)
(* Shutdown: the SIGTERM and unhandledRejection handlers of the server     *)
(* (part_000:61-78).                                                       *)
(***************************************************************************)
\* process.on('SIGTERM') up to its await: cache.flushAll() has run and
\* redisClient.quit() is under way.
Sigterm ==
    /\ phase = "listening"
    /\ mem' = MemRemove(mem, DOMAIN mem)
    /\ phase' = "quitting"
    /\ last' = [op |-> "SIGTERM", wasOpen |-> isOpen]
    /\ UNCHANGED <<redis, isOpen, db, pending, socket, inflight>>

\* await redisClient.quit() settles.  A closed client rejects the call at
\* once; quitFails: the QUIT of an open client is rejected.  Resolved, the
\* handler goes on to server.close; rejected, the handler's promise rejects
\* with nothing to catch it and 'unhandledRejection' is emitted.
QuitSettles(quitFails) ==
    /\ phase = "quitting"
    /\ quitFails => isOpen
    /\ phase' = IF isOpen /\ ~quitFails THEN "closing" ELSE "rejected"
    /\ isOpen' = (isOpen /\ quitFails)
    /\ socket' = [socket EXCEPT !["cache"] =
                     IF isOpen /\ quitFails THEN @ ELSE SocketClosed]
    /\ last' = [op |-> "quit", rejected |-> ~(isOpen /\ ~quitFails)]
    /\ UNCHANGED <<mem, redis, db, pending, inflight>>

\* process.on('unhandledRejection'): awaits redisClient.quit() again before
\* server.close.  When that call rejects too, the handler's own promise
\* rejects and the event is emitted again.
UnhandledRejection(quitFails) ==
    /\ phase = "rejected"
    /\ quitFails => isOpen
    /\ phase' = IF isOpen /\ ~quitFails THEN "closing" ELSE "rejected"
    /\ isOpen' = (isOpen /\ quitFails)
    /\ socket' = [socket EXCEPT !["cache"] =
                     IF isOpen /\ quitFails THEN @ ELSE SocketClosed]
    /\ last' = [op |-> "unhandledRejection",
                rejected |-> ~(isOpen /\ ~quitFails)]
    /\ UNCHANGED <<mem, redis, db, pending, inflight>>

\* server.close(...) was called; the server has stopped
ServerClose ==
    /\ phase = "closing"
    /\ phase' = "exited"
    /\ last' = [op |-> "serverClose"]
    /\ UNCHANGED <<mem, redis, isOpen, db, pending, socket, inflight>>

NextShutdown ==
    \/ \E a \in BOOLEAN : StartServer(a, TRUE)
    \/ \E u \in Urls : GetRequest(u, "none")
    \/ \E d \in HttpTickSteps : Tick(d)
    \/ RedisEnd
    \/ Sigterm
    \/ \E f \in BOOLEAN : QuitSettles(f)
    \/ \E f \in BOOLEAN : UnhandledRejection(f)
    \/ ServerClose

\* Once started, a handler runs on: its awaited call settles, and the
\* callback that follows is run.
SpecShutdown ==
    /\ InitHttp
    /\ [][NextShutdown]_vars
    /\ WF_vars(\E f \in BOOLEAN : QuitSettles(f))
    /\ WF_vars(\E f \in BOOLEAN : UnhandledRejection(f))
    /\ WF_vars(ServerClose)

(***************************************************************************)
(* Reconnection of the redis clients.  Both clients are created with the   *)
(* same reconnectStrategy; node-redis calls it after every failed attempt  *)
(* to open the socket, with the number of attempts of the running loop     *)
(* that failed before this one.                                            *)
(***************************************************************************)
\* The strategy a client would have if the first failed attempt counted as
\* retry 1; C20 tells it from the code.
ReconnectStrategyFromOne(retries) ==
    IF retries + 1 > MaxRetries
    THEN [t |-> "error", message |-> "Too many retries"]
    ELSE [t |-> "number", n |-> Min((retries + 1) * RetryStepMs, MaxDelayMs)]

\* reconnectStrategy: (retries) => ... (upload.js:369-375, part_005:204-210)
ReconnectStrategy(retries) ==
    IF retries > MaxRetries
    THEN [t |-> "error", message |-> "Too many retries"]
    ELSE [t |-> "number", n |-> Min(retries * RetryStepMs, MaxDelayMs)]

\* client.connect(): isOpen is true from here on
Connect(c) ==
    /\ socket[c].state \in {"idle", "closed"}
    /\ socket' = [socket EXCEPT ![c] = [state |-> "connecting", retries |-> 0,
                                        delay |-> 0]]
    /\ isOpen' = IF c = "cache" THEN TRUE ELSE isOpen
    /\ last' = [op |-> "connect", client |-> c]
    /\ UNCHANGED <<mem, redis, db, pending, phase, inflight>>

\* the attempt under way opens the socket: 'ready'
ConnectSucceeds(c) ==
    /\ socket[c].state = "connecting"
    /\ socket' = [socket EXCEPT ![c] = SocketReady]
    /\ last' = [op |-> "ready", client |-> c]
    /\ UNCHANGED <<mem, redis, isOpen, db, pending, phase, inflight>>

\* the socket of a ready client breaks: a new loop starts, its count at 0
SocketLost(c) ==
    /\ socket[c].state = "ready"
    /\ socket' = [socket EXCEPT ![c] = [state |-> "connecting", retries |-> 0,
                                        delay |-> 0]]
    /\ last' = [op |-> "socketLost", client |-> c]
    /\ UNCHANGED <<mem, redis, isOpen, db, pending, phase, inflight>>

\* The attempt under way fails.  The strategy is asked with the count of
\* the loop; a number is the wait before the next attempt, an Error ends
\* the loop and closes the client.  waited: the wait before this attempt.
ConnectFails(c) ==
    LET r == ReconnectStrategy(socket[c].retries)
    IN  /\ socket[c].state = "connecting"
        /\ socket' = [socket EXCEPT ![c] =
                         IF r.t = "error" THEN SocketClosed
                         ELSE [state |-> "connecting",
                               retries |-> socket[c].retries + 1,
                               delay |-> r.n]]
        /\ isOpen' = IF c = "cache" /\ r.t = "error" THEN FALSE ELSE isOpen
        /\ last' = [op |-> "connectFailed", client |-> c,
                    retries |-> socket[c].retries,
                    waited |-> socket[c].delay, answer |-> r]
        /\ UNCHANGED <<mem, redis, db, pending, phase, inflight>>

NextReconnect ==
    \/ \E c \in Clients : Connect(c)
    \/ \E c \in Clients : ConnectSucceeds(c)
    \/ \E c \in Clients : SocketLost(c)
    \/ \E c \in Clients : ConnectFails(c)

SpecReconnect == InitHttp /\ [][NextReconnect]_vars

(***************************************************************************)
(* Properties.                                                             *)
(***************************************************************************)
\* The documented response-cache key of the product list is in neither tier
ProductListInvalidated ==
    /\ ~Truthy(MemGet(mem, CacheKey(ProductsUrl)))
    /\ CacheKey(ProductsUrl) \notin DOMAIN redis
    /\ pending = {}

\* C1: once createProduct has succeeded and the invalidation of
\* cache:/api/v1/products it triggers has completed in both tiers, the next
\* successful
\* GET /api/v1/products returns the list the database holds, not the list
\* cached before the write.
C1_FreshAfterInvalidation ==
    [][(/\ \/ last.op = "invalidated" /\ last.by = "createProduct"
           \/ last.op = "WRITE" /\ last.name = "createProduct"
                /\ last.status = 201
        /\ ProductListInvalidated
        /\ last'.op = "GET"
        /\ last'.url = ProductsUrl
        /\ last'.status = 200)
       => last'.text.body = <<"success", db["products"]>>]_vars

\* The payload stored under `key` in the tier cacheMiddleware reads it from
StoredPayload(key) ==
    IF Truthy(MemGet(mem, key))
    THEN JSONstringify(MemGet(mem, key))
    ELSE redis[key].txt

\* C2: a GET whose key cache:<originalUrl> is in the local store, or in the
\* distributed store while the client is open and the read is answered, is
\* served from the cache: the handler does not run and the payload sent is
\* the stored one.
C2_HitBypassesHandler ==
    [][(/\ phase = "listening"
        /\ last'.op = "GET"
        /\ ~last'.rejected
        /\ \/ Truthy(MemGet(mem, CacheKey(last'.url)))
           \/ isOpen /\ UseRedis(last'.url)
                /\ CacheKey(last'.url) \in DOMAIN redis)
       => (/\ ~last'.handlerRan
           /\ last'.text = StoredPayload(CacheKey(last'.url)))]_vars

\* C3: every successful write of products, brands or categories calls
\* clearCacheByPattern with a pattern contained in the response-cache prefix
\* cache:/api/v1/<entity> of the written entity type.
C3_WriteClearsResponseCache ==
    [][(/\ last'.op = "WRITE"
        /\ last'.status >= 200 /\ last'.status < 300)
       => \E p \in last'.cleared :
             Includes(CacheKey("/api/v1/" \o last'.entity), p)]_vars

\* C6: a GET that reaches its handler is answered with the handler's own
\* status code, whatever cache operation failed on the way.
C6_CacheErrorsAbsorbed ==
    (last.op = "GET" /\ last.handlerRan) => last.status = last.ownStatus

\* C7: when redisClient.connect() fails at startup the process keeps running
\* and the server listens.
C7_StartsWithoutRedis ==
    (last.op = "startServer" /\ ~last.redisOk) => phase = "listening"

\* The keys of a store that contain the pattern as a substring
Containing(store, pattern) == {k \in DOMAIN store : Includes(k, pattern)}

\* C4: a clearCacheByPattern(p) whose redis calls all succeeded has removed
\* from the Local Cache and from the Distributed Cache exactly the keys that
\* contain p as a substring, and has left every other key with its entry.
C4_RemovesExactlySubstringKeys ==
    [][(last'.op = "clearCacheByPattern" /\ last'.didLog)
       => (/\ mem' = MemRemove(mem, Containing(mem, last'.pattern))
           /\ redis' = RedisDel(redis, Containing(redis, last'.pattern)))]_vars

\* The number of keys a step removed from both tiers
Removed ==
    Cardinality((DOMAIN mem) \ (DOMAIN mem'))
        + Cardinality((DOMAIN redis) \ (DOMAIN redis'))

C8_SameLocalEffectAsConnected ==
    ~isOpen =>
        /\ \A k \in Keys, u \in BOOLEAN :
              GetCache(mem, redis, isOpen, k, u, FALSE).mem
                 = GetCache(mem, redis, TRUE, k, u, FALSE).mem
        /\ \A k \in Keys, v \in Values, t \in Ttls, u \in BOOLEAN :
              SetCache(mem, redis, isOpen, k, v, t, u, FALSE).mem
                 = SetCache(mem, redis, TRUE, k, v, t, u, FALSE).mem
        /\ \A p \in Patterns :
              ClearCacheByPattern(mem, redis, isOpen, p, FALSE, FALSE).mem
                 = ClearCacheByPattern(mem, redis, TRUE, p, FALSE, FALSE).mem
        /\ GetCacheStats(mem, isOpen).redis = "disconnected"

\* C8: with the client closed, setCache and clearCacheByPattern have on the
\* Local Cache the effect they have with the client open, whether or not the
\* redis calls of the open client succeed; getCache answers from the Local
\* Cache alone, as getCache(key, false) does, without the backfill an open
\* client makes; none of them ends in its catch block for the closed client;
\* getCacheStats reports 'disconnected'.
C8_DisconnectedFacade ==
    ~isOpen =>
        /\ \A k \in Keys, u \in BOOLEAN :
              LET g == GetCache(mem, redis, isOpen, k, u, FALSE)
              IN  /\ g = GetCache(mem, redis, TRUE, k, FALSE, FALSE)
                  /\ g.ret = IF Truthy(MemGet(mem, k))
                             THEN MemGet(mem, k) ELSE Null
        /\ \A k \in Keys, v \in Values, t \in Ttls, u \in BOOLEAN,
              f \in BOOLEAN :
              LET st == SetCache(mem, redis, isOpen, k, v, t, u, FALSE)
              IN  /\ st.mem = SetCache(mem, redis, TRUE, k, v, t, u, f).mem
                  /\ st.redis = redis
                  /\ st.caught = MemSetThrows(mem)
        /\ \A p \in Patterns, f \in BOOLEAN, g \in BOOLEAN :
              LET c == ClearCacheByPattern(mem, redis, isOpen, p, FALSE, FALSE)
              IN  /\ c.mem = ClearCacheByPattern(mem, redis, TRUE, p, f, g).mem
                  /\ c.redis = redis
                  /\ ~c.caught
        /\ GetCacheStats(mem, isOpen).redis = "disconnected"

\* a setCache with useRedis on a closed client: the key is in the Local
\* Cache and not in the Distributed Cache, which still holds another key
C8_Witness ==
    /\ ~isOpen
    /\ last.op = "setCache"
    /\ last.useRedis
    /\ MemGet(mem, last.key) = last.val
    /\ last.key \notin DOMAIN redis
    /\ DOMAIN redis # {}

\* C9: a getCache(k, useRedis) that directly follows setCache(k, v, ttl,
\* useRedis) with ttl > 0, and whose redis read is answered, returns v.
C9_ReadYourWrite ==
    [][(/\ last.op = "setCache"
        /\ last'.op = "getCache"
        /\ last'.key = last.key
        /\ last'.useRedis = last.useRedis
        /\ ~last'.rejected)
       => last'.ret = last.val]_vars

\* C10: getCache(key, true) of a key the Local Cache does not hold and the
\* Distributed Cache does, on an open client that answers, returns the
\* distributed value and leaves it in the Local Cache with a TTL of 60
\* seconds, below the local ceiling.
C10_BackfillFromRedis ==
    [][(/\ last'.op = "getCache"
        /\ last'.useRedis
        /\ ~last'.rejected
        /\ isOpen
        /\ last'.key \notin DOMAIN mem
        /\ last'.key \in DOMAIN redis)
       => (/\ last'.ret = JSONparse(redis[last'.key].txt)
           /\ last'.key \in DOMAIN mem'
           /\ mem'[last'.key] = [val |-> JSONparse(redis[last'.key].txt),
                                 left |-> BackfillTtl]
           /\ BackfillTtl <= LocalCeiling)]_vars

\* The keys a step stored in the Local Cache
StoredLocally ==
    {k \in DOMAIN mem' : k \notin DOMAIN mem \/ mem'[k] # mem[k]}

\* C11: whenever a request stores a key in the Local Cache (the write of
\* the response wrapper, setCache, or a backfill) and the Distributed Cache
\* holds an entry for the key, the TTL of the local entry is at most the TTL
\* the distributed entry was written with.
C11_LocalTtlWithinRedisTtl ==
    [][last'.op = "GET"
       => \A k \in StoredLocally :
             /\ ~MemPermanent(mem'[k])
             /\ k \in DOMAIN redis' => mem'[k].left <= redis'[k].ttl]_vars

\* a backfill: the brand list was served from redis, which has 900 of its
\* 1800 seconds left, and was stored locally for 60 seconds
C11_Witness ==
    /\ last.op = "GET"
    /\ ~last.handlerRan
    /\ CacheKey(last.url) \in DOMAIN mem
    /\ mem[CacheKey(last.url)].left = BackfillTtl
    /\ CacheKey(last.url) \in DOMAIN redis
    /\ redis[CacheKey(last.url)].left < redis[CacheKey(last.url)].ttl

\* C12: every entry of the Local Cache has at most 300 seconds left,
\* whatever ttl its writer passed; none is permanent.
C12_LocalLifetimeBounded ==
    \A k \in DOMAIN mem :
        ~MemPermanent(mem[k]) /\ mem[k].left <= LocalCeiling

\* C13: a getCache(k, useRedis) made more than t seconds after
\* setCache(k, v, t, useRedis), the process having made no other cache call
\* in between, returns null.
C13_AbsentAfterTtl ==
    [][(/\ last.op = "setCache"
        /\ last.waited > last.ttl
        /\ last'.op = "getCache"
        /\ last'.key = last.key
        /\ last'.useRedis = last.useRedis)
       => last'.ret = Null]_vars

\* C14: a setCache of a new key into a Local Cache that holds maxKeys keys
\* stores the key and evicts another one, so the store still holds maxKeys
\* keys.
C14_FullStoreEvicts ==
    [][(/\ last'.op = "setCache"
        /\ Cardinality(DOMAIN mem) = MaxKeys
        /\ last'.key \notin DOMAIN mem)
       => (/\ MemGet(mem', last'.key) = last'.val
           /\ Cardinality(DOMAIN mem') = MaxKeys)]_vars

\* The response-cache entry of a url in a tier holds an error payload
ErrorCached(m, r, url) ==
    \/ /\ Truthy(MemGet(m, CacheKey(url)))
       /\ MemGet(m, CacheKey(url)).body[1] = "error"
    \/ /\ CacheKey(url) \in DOMAIN r
       /\ r[CacheKey(url)].txt.body[1] = "error"

\* C15: a GET whose response has a status outside 200-299 leaves the entry
\* of its key in both tiers as it was; no tier ever holds an error payload
\* under a response-cache key, and a response served from the cache is
\* never an error payload.
C15_Non2xxNeverCached ==
    [][last'.op = "GET"
       => (/\ (last'.handlerRan /\ ~(last'.status >= 200 /\ last'.status < 300))
                => (/\ MemGet(mem', CacheKey(last'.url))
                          = MemGet(mem, CacheKey(last'.url))
                    /\ RedisGet(redis', CacheKey(last'.url))
                          = RedisGet(redis, CacheKey(last'.url)))
           /\ \A u \in Urls : ~ErrorCached(mem', redis', u)
           /\ ~last'.handlerRan => last'.text.body[1] = "success")]_vars

\* a GET that missed both tiers, whose handler answered 500, and whose key
\* is in neither tier afterwards
C15_Witness ==
    /\ last.op = "GET"
    /\ last.handlerRan
    /\ last.ownStatus = 500
    /\ last.status = 500
    /\ isOpen
    /\ CacheKey(last.url) \notin DOMAIN mem
    /\ CacheKey(last.url) \notin DOMAIN redis


\* C16: a POST, PUT, PATCH or DELETE request passes cacheMiddleware by
\* next() alone: no cached response is served and res.json is not wrapped,
\* the distributed store is as before the request, and the local store
\* changes only by the keys the handler's own invalidation deletes.
C16_NonGetBypassesCache ==
    [][last'.op = "WRITE"
       => (/\ last'.mw = "pass"
           /\ redis' = redis
           /\ mem' = MemRemove(mem, UNION {ClearLocalKeys(mem, p) :
                                              p \in last'.cleared}))]_vars

\* a successful POST /api/v1/products while the product list is cached in
\* the distributed store and the client is open
C16_Witness ==
    /\ last.op = "WRITE"
    /\ last.name = "createProduct"
    /\ last.status = 201
    /\ last.mw = "pass"
    /\ isOpen
    /\ CacheKey(ProductsUrl) \in DOMAIN redis

\* C17: a GET that is not served from the cache and whose handler answers
\* 2xx leaves the payload it sent stored under its key in the local store,
\* also when the distributed lookup of the middleware rejected.
C17_MissAlwaysCaptured ==
    [][(/\ last'.op = "GET"
        /\ last'.handlerRan
        /\ last'.ownStatus >= 200 /\ last'.ownStatus < 300
        /\ last'.status = last'.ownStatus)
       => (/\ Truthy(MemGet(mem', CacheKey(last'.url)))
           /\ JSONstringify(MemGet(mem', CacheKey(last'.url))) = last'.text)]_vars

\* C18: a setCache with useRedis true while the client is open attempts the
\* distributed write also when the local write fails: with the local store
\* full, the key is afterwards in the distributed store with the new value.
C18_WritesIndependent ==
    [][(/\ last'.op = "setCache"
        /\ last'.useRedis
        /\ last'.ttl > 0
        /\ isOpen
        /\ MemSetThrows(mem))
       => (/\ last'.key \in DOMAIN redis'
           /\ redis'[last'.key].txt = JSONstringify(last'.val))]_vars

\* C19: a product write whose database write succeeded answers with its
\* success status and payload whichever redis call of its invalidation
\* rejects; the local keys of all its patterns are deleted, and the
\* distributed deletion of every other pattern that matches keys is under
\* way.  A rejected DEL leaves the other pending deletions and the local
\* store as they are.
C19_InvalidationFailureAbsorbed ==
    [][/\ (last'.op = "WRITE" /\ db'["products"] = db["products"] + 1)
          => \E w \in ProductWriteHandlers :
               /\ w.name = last'.name
               /\ last'.status = w.status
               /\ last'.text.body = <<"success", db'["products"]>>
               /\ mem' = MemRemove(mem, UNION {ClearLocalKeys(mem, p) :
                                                  p \in w.patterns})
               /\ \A p \in w.patterns \ last'.failed :
                    (isOpen /\ RedisKeys(redis, p) # {})
                       => [keys |-> RedisKeys(redis, p), by |-> w.name]
                             \in pending'
       /\ (last'.op = "invalidated" /\ last'.failed)
          => (/\ mem' = mem
              /\ \A t \in pending : t.keys # last'.keys => t \in pending')]_vars

\* a product write answered 2xx although the KEYS call of one of its
\* patterns rejected: the product list is gone from the local store and
\* still in the distributed one
C19_Witness ==
    /\ last.op = "WRITE"
    /\ last.failed = {"cache:/api/v1/products"}
    /\ last.status \in {200, 201}
    /\ db["products"] > 0
    /\ isOpen
    /\ CacheKey(ProductsUrl) \notin DOMAIN mem
    /\ CacheKey(ProductsUrl) \in DOMAIN redis

\* C20: asked after a failed attempt with the count n of the running loop,
\* the strategy answers min(n*100, 3000) ms, which is at most 3000 ms and at
\* least the wait before it, and the client tries again; once n exceeds 10
\* it answers with an error, which closes the client and ends the retrying.
C20_ReconnectBackoff ==
    [][last'.op = "connectFailed"
       => (/\ last'.answer.t = "error" <=> last'.retries > MaxRetries
           /\ last'.answer.t = "number"
                => (/\ last'.answer.n
                          = Min(last'.retries * RetryStepMs, MaxDelayMs)
                    /\ last'.answer.n <= MaxDelayMs
                    /\ last'.answer.n >= socket[last'.client].delay
                    /\ socket'[last'.client].state = "connecting")
           /\ last'.answer.t = "error"
                => (/\ socket'[last'.client].state = "closed"
                    /\ last'.client = "cache" => ~isOpen'))]_vars

\* the cache client gave up when asked with a count of 11, the wait before
\* that attempt having been 1000 ms
C20_Witness ==
    /\ last.op = "connectFailed"
    /\ last.client = "cache"
    /\ last.retries = MaxRetries + 1
    /\ last.waited = MaxRetries * RetryStepMs
    /\ last.answer.t = "error"
    /\ socket["cache"].state = "closed"
    /\ ~isOpen


\* C21: the redis field of every 200 response to GET /health is 'connected'
\* when the client is open at the time the response is sent, 'disconnected'
\* otherwise.
C21_HealthReportsRedisState ==
    [][(last'.op = "GET" /\ last'.url = HealthUrl /\ last'.status = 200)
       => last'.text.body[1] = (IF isOpen' THEN "connected"
                                ELSE "disconnected")]_vars

\* C22: DELETE /api/cache/clear whose handler finds the cache module answers
\* success true; without a pattern both stores are empty afterwards, with a
\* pattern each store has lost exactly its keys that contain the pattern.
C22_CacheClearRoute ==
    [][(last'.op = "CLEAR" /\ last'.found)
       => (/\ last'.success
           /\ last'.pattern = NoPattern => (mem' = Empty /\ redis' = Empty)
           /\ last'.pattern # NoPattern
                => (/\ DOMAIN mem' = DOMAIN mem \ Containing(mem, last'.pattern)
                    /\ DOMAIN redis'
                          = DOMAIN redis \ Containing(redis, last'.pattern)))]_vars

\* C26: a DELETE /api/cache/clear request that is not authenticated as an
\* admin removes no key from either store.
C26_CacheClearAdminOnly ==
    [][(last'.op = "CLEAR" /\ ~last'.admin)
       => (DOMAIN mem' = DOMAIN mem /\ DOMAIN redis' = DOMAIN redis)]_vars

\* key.startsWith(prefix)
StartsWith(key, prefix) ==
    Len(key) >= Len(prefix) /\ SubSeq(key, 1, Len(prefix)) = prefix

\* C23: after a clearCacheByPattern("product:") whose redis calls all
\* succeeded, neither store holds a key that starts with
\* "related_products:" or with "popular_products:".
C23_ProductPatternIsBroad ==
    [][(last'.op = "clearCacheByPattern" /\ last'.pattern = "product:"
        /\ last'.didLog)
       => \A k \in DOMAIN mem' \cup DOMAIN redis' :
            /\ ~StartsWith(k, "related_products:")
            /\ ~StartsWith(k, "popular_products:")]_vars

\* C24: in a clearCacheByPattern(p) whose redis calls all succeeded, a key
\* is deleted from the Distributed Cache exactly when it contains p as
\* literal text, which is the rule the Local Cache is cleared by.
C24_GlobEqualsSubstring ==
    [][(last'.op = "clearCacheByPattern" /\ last'.didLog)
       => (/\ DOMAIN mem \ DOMAIN mem' = Containing(mem, last'.pattern)
           /\ DOMAIN redis \ DOMAIN redis'
                 = Containing(redis, last'.pattern))]_vars

\* C25: a GET /api/v1/products/:id that found the product in no cache, read
\* it from the database and cached it under product:<id> serves it: the
\* response is 200 with the product, and the entry is the one a following
\* request is answered from.
C25_MissServedAndStaysCached ==
    [][(/\ last'.op = "GET"
        /\ last'.url = ProductByIdUrl
        /\ last'.handlerRan
        /\ ~Truthy(MemGet(mem, ProductKey))
        /\ ProductKey \notin DOMAIN redis
        /\ Truthy(MemGet(mem', ProductKey)))
       => (/\ last'.status = 200
           /\ last'.text.body = <<"success", db["products"]>>
           /\ MemGet(mem', ProductKey).body = <<"product", db["products"]>>)]_vars

\* C27: a GET of the seller route by a requester without a token is
\* answered 401, and a 200 response carries the listing of the requester:
\* nobody receives, from the response cache, the payload made for another.
C27_ResponseCacheRespectsIdentity ==
    [][(last'.op = "GET" /\ last'.url = SellerUrl)
       => (/\ last'.who = Anonymous => last'.status = 401
           /\ (last'.who # Anonymous /\ last'.status = 200)
                => last'.text.body[1] = last'.who)]_vars

\* The version of the listing a store holds under the response-cache key of
\* the product list, -1 when it holds none
CachedListVersion(store, text) ==
    IF CacheKey(ProductsUrl) \notin DOMAIN store THEN 0 - 1
    ELSE IF text THEN store[CacheKey(ProductsUrl)].txt.body[2]
    ELSE IF Truthy(MemGet(store, CacheKey(ProductsUrl)))
    THEN MemGet(store, CacheKey(ProductsUrl)).body[2]
    ELSE 0 - 1

\* C28: when a GET of the product list that went to the database has
\* finished and no invalidation is under way, a payload either tier holds
\* under cache:/api/v1/products is of the current state of the database,
\* whatever writes ran while the GET awaited its query.
C28_NoStaleListAfterRace ==
    (last.op = "GETend" /\ inflight = {} /\ pending = {})
       => (/\ CachedListVersion(mem, FALSE) \in {0 - 1, db["products"]}
           /\ CachedListVersion(redis, TRUE) \in {0 - 1, db["products"]})

\* C29: when the distributed deletion of a clearCacheByPattern call has
\* completed with the client open, the Local Cache holds under none of the
\* deleted keys a copy of the value the Distributed Cache held until then,
\* whatever reads ran since the local keys were deleted.
C29_NoBackfillOfInvalidated ==
    [][(last'.op = "invalidated" /\ ~last'.failed /\ isOpen)
       => \A k \in last'.keys \cap DOMAIN redis :
            ~(/\ Truthy(MemGet(mem', k))
              /\ MemGet(mem', k) = JSONparse(redis[k].txt))]_vars

\* C30: after SIGTERM the Local Cache is empty, and server.close is
\* eventually called, whether the redis client was open or not.
C30_SigtermClosesServer ==
    (last.op = "SIGTERM") ~> (mem = Empty /\ phase \in {"closing", "exited"})
=============================================================================
